---- MODULE Spec2Model ----
(***************************************************************************)
(* Print job queue (printer_control/queue.py, models.py) and printer agent *)
(* (printer_control/agent.py) of the printer-control package.              *)
(*                                                                         *)
(* SpecQueue : the PrintQueue operations called one after another.         *)
(* SpecOrder : enqueue, dequeue and removal, with the order of the calls.   *)
(* SpecStore : the PrintQueue operations with save() and a reload.          *)
(* SpecSave  : save() step by step, two threads under _lock, and a crash.   *)
(* Spec      : the PrinterAgent, its caller's thread and its control loop.  *)
(* SpecLife  : the PrinterAgent started and stopped, with status queries.  *)
(* SpecLoaded: the PrintQueue operations on a queue read from a file.      *)
(* SpecUpload: BambuLabPrinter.upload_file, attempt by attempt.            *)
(* SpecRestart: the PrinterAgent over a saved snapshot, with fairness.     *)
(*                                                                         *)
(* Definitions named X_Mut... are faulty variants of X: the properties     *)
(* below are expected to fail when X behaves like them.                    *)
(***************************************************************************)
EXTENDS Integers, Sequences, FiniteSets, TLC

\* ------------------------------------------------------------------ bounds
NumJobs == 3          \* job ids of the queue-level specifications
NumStoreJobs == 2     \* job ids used where the queue file is part of the state
NumAgentJobs == 2     \* job ids the agent hands out
MaxInitRetries == 1   \* max_retries of a job found in the file at startup
MaxKeep == 1          \* keep_count ranges over 0..MaxKeep
MaxLoopThreads == 2   \* control-loop threads alive at once

\* ------------------------------------------------------- program constants
DefaultMaxRetries == 3
HighPriority == 10

JobIds == 1..NumJobs
NoId == 0
Priorities == {0, HighPriority}
StoreIds == 1..NumStoreJobs
AgentIds == 1..NumAgentJobs
Threads == {"api", "loop"}
Commands == {"upload", "start", "cancel"}
NoCall == [op |-> "none", id |-> NoId, dev |-> "none"]

\* PrintJobStatus members (models.py 16-27)
PrintJobStatus ==
  {"PENDING", "UPLOADING", "STARTING", "PRINTING", "RETRYING",
   "COMPLETED", "FAILED", "CANCELLED", "ERROR"}

\* Python None, and the G-code file every job of the model prints
None == "None"
GcodeFile == "part.gcode"
ExistingFiles == {GcodeFile}

\* An absent entry of the _jobs dict
NoJob == [job_id |-> NoId]

\* PrintJob(job_id, gcode_path, priority, status, max_retries) with the
\* defaults of the other fields
PrintJob(id, prio, st, mr) ==
  [job_id |-> id, gcode_path |-> [path |-> GcodeFile], priority |-> prio,
   status |-> st, progress |-> 0, retry_count |-> 0, max_retries |-> mr,
   error_message |-> None]

\* (faulty variant: FAILED not counted as terminal)
is_terminal_MutNoFailed(job) == job.status \in {"COMPLETED", "CANCELLED", "ERROR"}
is_terminal(job) == job.status \in {"COMPLETED", "FAILED", "CANCELLED", "ERROR"}

can_retry(job) ==
  job.status \in {"FAILED", "ERROR"} /\ job.retry_count < job.max_retries

\* ------------------------------------------------------------ python lists
Contains(s, x) == \E k \in 1..Len(s) : s[k] = x

\* list.remove(x): drops the first occurrence
Remove(s, x) ==
  LET i == CHOOSE k \in 1..Len(s) : s[k] = x /\ \A m \in 1..(k - 1) : s[m] # x
  IN  SubSeq(s, 1, i - 1) \o SubSeq(s, i + 1, Len(s))

\* s[:-k] and s[-k:] as Python slices them (-0 is 0)
SliceButLast(s, k) == IF k = 0 THEN <<>> ELSE SubSeq(s, 1, Len(s) - k)
SliceLast(s, k) == IF k = 0 THEN s ELSE SubSeq(s, Len(s) - k + 1, Len(s))

Range(s) == {s[k] : k \in 1..Len(s)}

\* ------------------------------------------------------------- QueueState
EmptyState == [pending |-> <<>>, active |-> <<>>, completed |-> <<>>, failed |-> <<>>]

next_job(st) == IF Len(st.pending) > 0 THEN st.pending[1] ELSE NoId

add_job(st, id) ==
  IF ~Contains(st.pending, id) THEN [st EXCEPT !.pending = Append(@, id)] ELSE st

move_to_active(st, id) ==
  IF Contains(st.pending, id)
  THEN [st |-> [st EXCEPT !.pending = Remove(@, id), !.active = Append(@, id)],
        ok |-> TRUE]
  ELSE [st |-> st, ok |-> FALSE]

move_to_completed(st, id) ==
  IF Contains(st.active, id)
  THEN [st |-> [st EXCEPT !.active = Remove(@, id), !.completed = Append(@, id)],
        ok |-> TRUE]
  ELSE [st |-> st, ok |-> FALSE]

move_to_failed(st, id) ==
  LET st1 == IF Contains(st.active, id) THEN [st EXCEPT !.active = Remove(@, id)]
             ELSE IF Contains(st.pending, id) THEN [st EXCEPT !.pending = Remove(@, id)]
             ELSE st
  IN  IF ~Contains(st1.failed, id)
      THEN [st |-> [st1 EXCEPT !.failed = Append(@, id)], ok |-> TRUE]
      ELSE [st |-> st1, ok |-> FALSE]

\* ------------------------------------------------------------- PrintQueue
\* A queue value q is [jobs |-> the _jobs dict, state |-> the QueueState].

\* (faulty variants: every job appended; every job put in front)
enqueue_pending_MutAppend(st, job) == add_job(st, job.job_id)
enqueue_pending_MutFront(st, job) == [st EXCEPT !.pending = <<job.job_id>> \o @]
\* enqueue, the PENDING branch: priority > 0 goes to the front
enqueue_pending(st, job) ==
  IF job.priority > 0
  THEN [st EXCEPT !.pending = <<job.job_id>> \o @]
  ELSE add_job(st, job.job_id)

\* (faulty variant: a job id that has a record is enqueued again)
enqueue_MutOverwrite(q, job) ==
  IF FALSE
  THEN [q |-> q, raised |-> "ValidationError"]
  ELSE LET id == job.job_id
           st == q.state
           st1 == CASE job.status = "PENDING" -> enqueue_pending(st, job)
                    [] job.status \in {"UPLOADING", "STARTING", "PRINTING"} ->
                         IF ~Contains(st.active, id)
                         THEN [st EXCEPT !.active = Append(@, id)] ELSE st
                    [] job.status = "COMPLETED" ->
                         IF ~Contains(st.completed, id)
                         THEN [st EXCEPT !.completed = Append(@, id)] ELSE st
                    [] job.status \in {"FAILED", "ERROR", "CANCELLED"} ->
                         IF ~Contains(st.failed, id)
                         THEN [st EXCEPT !.failed = Append(@, id)] ELSE st
                    [] OTHER -> st
       IN  [q |-> [jobs |-> [q.jobs EXCEPT ![id] = job], state |-> st1],
            raised |-> None]
enqueue(q, job) ==
  IF q.jobs[job.job_id] # NoJob
  THEN [q |-> q, raised |-> "ValidationError"]
  ELSE LET id == job.job_id
           st == q.state
           st1 == CASE job.status = "PENDING" -> enqueue_pending(st, job)
                    [] job.status \in {"UPLOADING", "STARTING", "PRINTING"} ->
                         IF ~Contains(st.active, id)
                         THEN [st EXCEPT !.active = Append(@, id)] ELSE st
                    [] job.status = "COMPLETED" ->
                         IF ~Contains(st.completed, id)
                         THEN [st EXCEPT !.completed = Append(@, id)] ELSE st
                    [] job.status \in {"FAILED", "ERROR", "CANCELLED"} ->
                         IF ~Contains(st.failed, id)
                         THEN [st EXCEPT !.failed = Append(@, id)] ELSE st
                    [] OTHER -> st
       IN  [q |-> [jobs |-> [q.jobs EXCEPT ![id] = job], state |-> st1],
            raised |-> None]

dequeue(q) ==
  LET id == next_job(q.state)
  IN  IF id = NoId THEN [q |-> q, job |-> NoId]
      ELSE IF q.jobs[id] = NoJob
      THEN [q |-> [q EXCEPT !.state.pending = Remove(@, id)], job |-> NoId]
      ELSE [q |-> [q EXCEPT !.state = move_to_active(@, id).st], job |-> id]

mark_completed(q, id) ==
  IF q.jobs[id] = NoJob THEN [q |-> q, ok |-> FALSE]
  ELSE LET m == move_to_completed(q.state, id)
       IN  [q |-> [jobs |-> [q.jobs EXCEPT ![id].status = "COMPLETED"], state |-> m.st],
            ok |-> m.ok]

mark_failed(q, id, msg) ==
  IF q.jobs[id] = NoJob THEN [q |-> q, ok |-> FALSE]
  ELSE LET m == move_to_failed(q.state, id)
           j1 == [q.jobs[id] EXCEPT !.status = "FAILED"]
           j2 == IF msg # None THEN [j1 EXCEPT !.error_message = msg] ELSE j1
       IN  [q |-> [jobs |-> [q.jobs EXCEPT ![id] = j2], state |-> m.st], ok |-> m.ok]

clear_terminal_jobs(q, keep) ==
  LET c == q.state.completed
      oldC == IF Len(c) > keep THEN SliceButLast(c, keep) ELSE <<>>
      newC == IF Len(c) > keep THEN SliceLast(c, keep) ELSE c
      js1 == [id \in JobIds |-> IF id \in Range(oldC) THEN NoJob ELSE q.jobs[id]]
      f == q.state.failed
      oldF == IF Len(f) > keep THEN SliceButLast(f, keep) ELSE <<>>
      newF == IF Len(f) > keep THEN SliceLast(f, keep) ELSE f
      js2 == [id \in JobIds |-> IF id \in Range(oldF) THEN NoJob ELSE js1[id]]
  IN  [q |-> [jobs |-> js2,
              state |-> [q.state EXCEPT !.completed = newC, !.failed = newF]],
       removed |-> Len(oldC) + Len(oldF)]

\* ------------------------------------------------------------ persistence
\* model_dump(mode="json"): enum members become their values, the Path its
\* string, None becomes null
StatusValue(s) ==
  CASE s = "PENDING" -> "pending"     [] s = "UPLOADING" -> "uploading"
    [] s = "STARTING" -> "starting"   [] s = "PRINTING" -> "printing"
    [] s = "RETRYING" -> "retrying"   [] s = "COMPLETED" -> "completed"
    [] s = "FAILED" -> "failed"       [] s = "CANCELLED" -> "cancelled"
    [] s = "ERROR" -> "error"

NoneToNull(x) == IF x = None THEN "null" ELSE x
NullToNone(x) == IF x = "null" THEN None ELSE x

\* (faulty variant: error_message not written)
model_dump_job_MutNoMessage(job) ==
  [job_id |-> job.job_id, gcode_path |-> job.gcode_path.path,
   priority |-> job.priority, status |-> StatusValue(job.status),
   progress |-> job.progress, retry_count |-> job.retry_count,
   max_retries |-> job.max_retries,
   error_message |-> "null"]
model_dump_job(job) ==
  [job_id |-> job.job_id, gcode_path |-> job.gcode_path.path,
   priority |-> job.priority, status |-> StatusValue(job.status),
   progress |-> job.progress, retry_count |-> job.retry_count,
   max_retries |-> job.max_retries,
   error_message |-> NoneToNull(job.error_message)]

\* The document save() serializes: {"state": ..., "jobs": {job_id: ...}}
save_document(q) ==
  [state |-> q.state,
   jobs |-> [id \in {i \in JobIds : q.jobs[i] # NoJob} |-> model_dump_job(q.jobs[id])]]

\* A file is absent, partially written, or fully written
Absent == [written |-> "absent"]
NoFiles == [queue |-> Absent, tmp |-> Absent]

\* save(), step by step: open(temp_path, "w") and the start of json.dump,
\* the end of json.dump and close, temp_path.replace(queue_path)
save_open(fs, doc) == [fs EXCEPT !.tmp = [written |-> "partial", data |-> doc]]
save_write(fs) == [fs EXCEPT !.tmp.written = "full"]
save_replace(fs) == [queue |-> fs.tmp, tmp |-> Absent]
\* (faulty variant: the temporary file is never renamed)
save_MutNoReplace(fs, q) == save_write(save_open(fs, save_document(q)))
save(fs, q) == save_replace(save_write(save_open(fs, save_document(q))))

\* PrintJob(**job_data): the field validators of the model
valid_job_data(d) ==
  /\ d.gcode_path \in ExistingFiles
  /\ \E s \in PrintJobStatus : StatusValue(s) = d.status
  /\ d.progress >= 0 /\ d.progress <= 100
  /\ d.retry_count >= 0 /\ d.max_retries >= 0

parse_job(d) ==
  [job_id |-> d.job_id, gcode_path |-> [path |-> d.gcode_path],
   priority |-> d.priority,
   status |-> CHOOSE s \in PrintJobStatus : StatusValue(s) = d.status,
   progress |-> d.progress, retry_count |-> d.retry_count,
   max_retries |-> d.max_retries,
   error_message |-> NullToNone(d.error_message)]

\* load(): QueueError for an unreadable document or an invalid job
load(file) ==
  IF file.written # "full" THEN [raised |-> "QueueError"]
  ELSE IF \E id \in DOMAIN file.data.jobs : ~valid_job_data(file.data.jobs[id])
  THEN [raised |-> "QueueError"]
  ELSE [raised |-> None,
        q |-> [jobs |-> [id \in JobIds |->
                           IF id \in DOMAIN file.data.jobs
                           THEN parse_job(file.data.jobs[id]) ELSE NoJob],
               state |-> file.data.state]]

EmptyQueue == [jobs |-> [id \in JobIds |-> NoJob], state |-> EmptyState]

\* PrintQueue(queue_path): loads the file when it exists
PrintQueue(fs) ==
  IF fs.queue.written = "absent" THEN [raised |-> None, q |-> EmptyQueue]
  ELSE load(fs.queue)

\* ---------------------------------------------------------------- state
VARIABLES
  jobs,     \* PrintQueue._jobs: job id -> PrintJob, NoJob when absent
  state,    \* PrintQueue._state: the four lists of job ids
  files,    \* the queue file and its temporary file
  ret,      \* what the caller's last operation returned or raised, as text
  hist,     \* history of the pending list: enqueues, dequeues, removals
  logging,  \* whether hist is being recorded
  used,     \* the job ids handed out so far (ids are never reused)
  pc,       \* where the caller's thread and the control-loop thread are
  call,     \* the PrinterAgent call the caller's thread is executing
  job,      \* the job the control loop is working on (NoId: none)
  mon,      \* the active ids _monitor_active_jobs has still to visit
  connected,\* BambuLabPrinter._connected
  running,  \* PrinterAgent._running
  cmds,     \* device commands attempted so far: <<command, job id>> -> count
  returned, \* the job ids submit_job has returned
  loops     \* how many control-loop threads are alive

qvars == <<jobs, state>>
hvars == <<hist, logging>>
avars == <<pc, call, job, mon, connected, running, cmds, returned, loops>>
vars == <<jobs, state, files, ret, hist, logging, used, pc, call, job, mon,
          connected, running, cmds, returned, loops>>

QS == [jobs |-> jobs, state |-> state]
SetQ(q) == jobs' = q.jobs /\ state' = q.state

Init ==
  /\ jobs = EmptyQueue.jobs
  /\ state = EmptyState
  /\ files = NoFiles
  /\ ret = None
  /\ hist = <<>>
  /\ logging = FALSE
  /\ used = {}
  /\ pc = [t \in Threads |-> "idle"]
  /\ call = NoCall
  /\ job = NoId
  /\ mon = <<>>
  /\ connected = FALSE
  /\ running = FALSE
  /\ cmds = [c \in Commands \X JobIds |-> 0]
  /\ returned = {}
  /\ loops = 0

\* Record an event of the pending list
Log(e) == hist' = IF logging THEN Append(hist, e) ELSE hist
Event(op, id, prio) == [op |-> op, id |-> id, prio |-> prio]

\* -------------------------------------------------- SpecQueue: operations
EnqueueStatuses == {"PENDING", "PRINTING", "RETRYING", "COMPLETED", "FAILED"}

\* Job ids are unique: an id is enqueued again only while its record exists
\* (and the call is then refused)
QEnqueue(id, st, prio) ==
  /\ jobs[id] # NoJob \/ id \notin used
  /\ used' = used \cup {id}
  /\ LET r == enqueue(QS, PrintJob(id, prio, st, DefaultMaxRetries))
     IN  /\ SetQ(r.q)
         /\ IF r.raised = None /\ st = "PENDING"
            THEN Log(Event("enq", id, prio)) ELSE UNCHANGED hist
  /\ UNCHANGED <<files, ret, logging, avars>>

QDequeue ==
  /\ LET r == dequeue(QS)
     IN  /\ SetQ(r.q)
         /\ IF r.job # NoId
            THEN Log(Event("deq", r.job, jobs[r.job].priority)) ELSE UNCHANGED hist
  /\ UNCHANGED <<files, ret, logging, used, avars>>

QMarkCompleted(id) ==
  /\ LET r == mark_completed(QS, id)
     IN  /\ SetQ(r.q)
  /\ UNCHANGED <<files, ret, hist, logging, used, avars>>

QMarkFailed(id, msg) ==
  /\ LET r == mark_failed(QS, id, msg)
     IN  /\ SetQ(r.q)
         /\ IF Contains(state.pending, id) /\ ~Contains(r.q.state.pending, id)
            THEN Log(Event("rm", id, jobs[id].priority)) ELSE UNCHANGED hist
  /\ UNCHANGED <<files, ret, logging, used, avars>>

QClear(keep) ==
  /\ LET r == clear_terminal_jobs(QS, keep)
     IN  /\ SetQ(r.q)
  /\ UNCHANGED <<files, ret, hist, logging, used, avars>>

QSave ==
  /\ files' = save(files, QS)
  /\ ret' = "saved"
  /\ UNCHANGED <<jobs, state, hist, logging, used, avars>>

\* A fresh PrintQueue over the same file replaces the one in memory
QReload ==
  /\ files.queue.written # "absent"
  /\ LET r == PrintQueue(files)
     IN  /\ r.raised = None
         /\ SetQ(r.q)
  /\ ret' = "loaded"
  /\ UNCHANGED <<files, hist, logging, used, avars>>

NextQueue ==
  \/ \E id \in JobIds, prio \in Priorities : QEnqueue(id, "PENDING", prio)
  \/ \E id \in JobIds, st \in EnqueueStatuses \ {"PENDING"} : QEnqueue(id, st, 0)
  \/ QDequeue
  \/ \E id \in JobIds : QMarkCompleted(id)
  \/ \E id \in JobIds : QMarkFailed(id, "Test error")
  \/ \E keep \in 0..MaxKeep : QClear(keep)

SpecQueue == Init /\ [][NextQueue]_vars

\* SpecOrder: enqueues of pending jobs, dequeues and removals, with the
\* history of the pending list recorded
InitOrder ==
  /\ jobs = EmptyQueue.jobs
  /\ state = EmptyState
  /\ files = NoFiles
  /\ ret = None
  /\ hist = <<>>
  /\ logging = TRUE
  /\ used = {}
  /\ pc = [t \in Threads |-> "idle"]
  /\ call = NoCall
  /\ job = NoId
  /\ mon = <<>>
  /\ connected = FALSE
  /\ running = FALSE
  /\ cmds = [c \in Commands \X JobIds |-> 0]
  /\ returned = {}
  /\ loops = 0

NextOrder ==
  \/ \E id \in JobIds, prio \in Priorities : QEnqueue(id, "PENDING", prio)
  \/ QDequeue
  \/ \E id \in JobIds : QMarkFailed(id, "Cancelled by user")

SpecOrder == InitOrder /\ [][NextOrder]_vars

\* SpecStore: the queue operations with save() and a reload of the file
NextStore ==
  \/ \E id \in StoreIds, prio \in Priorities : QEnqueue(id, "PENDING", prio)
  \/ \E id \in StoreIds, st \in EnqueueStatuses \ {"PENDING"} : QEnqueue(id, st, 0)
  \/ QDequeue
  \/ \E id \in StoreIds : QMarkCompleted(id)
  \/ \E id \in StoreIds : QMarkFailed(id, "Test error")
  \/ \E keep \in 0..MaxKeep : QClear(keep)
  \/ QSave
  \/ QReload

SpecStore == Init /\ [][NextStore]_vars

\* ------------------------------------------------- Spec: the printer agent
\* The caller's thread runs start(), submit_job() and cancel_job(); the
\* control-loop thread runs _process_queue().  Each action is one lock
\* section of the queue, one write of a job field, or one device call.
\* The device is the environment: every call on it may succeed or fail and
\* get_status() may report any status.

CompletionThreshold == 99
KeepCountDefault == 100
DeviceStates == {"idle", "printing", "error"}
DeviceProgress == {98, 99}
WorkflowError == "Test error"

\* Files a startup may find: none, or one pending job written by an
\* earlier run, with any max_retries
InitialFiles ==
  {NoFiles} \cup
  {save(NoFiles, enqueue(EmptyQueue, PrintJob(1, 0, "PENDING", mr)).q) :
     mr \in 0..MaxInitRetries}

InitAgent ==
  /\ files \in InitialFiles
  /\ jobs = PrintQueue(files).q.jobs
  /\ state = PrintQueue(files).q.state
  /\ used = {id \in JobIds : PrintQueue(files).q.jobs[id] # NoJob}
  /\ ret = None
  /\ hist = <<>>
  /\ logging = FALSE
  /\ pc = [t \in Threads |-> "idle"]
  /\ call = NoCall
  /\ job = NoId
  /\ mon = <<>>
  /\ connected = FALSE
  /\ running = FALSE
  /\ cmds = [c \in Commands \X JobIds |-> 0]
  /\ returned = {}
  /\ loops = 0

Goto(t, l) == pc' = [pc EXCEPT ![t] = l]
Sent(c, id) == cmds' = [cmds EXCEPT ![<<c, id>>] = @ + 1]
SetStatus(id, st) == jobs' = [jobs EXCEPT ![id].status = st]
Min(S) == CHOOSE x \in S : \A y \in S : x <= y

\* save() as the agent's threads see it.  The disk accepts every write in
\* this specification; SpecSave has the save() that is cut short.
SaveOk == files' = save(files, QS)

\* PrinterStatus.can_accept_job (online is always True in a parsed status)
can_accept_job(st) == st.state = "idle" /\ st.online

\* What get_status() gives: a PrinterStatus (current_job_id NoId: no current
\* job), or ConnectionError
DeviceStatuses ==
  [state : DeviceStates, online : {TRUE}, current_job_id : AgentIds \cup {NoId},
   progress : DeviceProgress]
ConnectionErrorReply == [error |-> "ConnectionError"]
Replies == DeviceStatuses \cup {ConnectionErrorReply}
IsError(r) == "error" \in DOMAIN r

\* _process_next_job() reads the state and the online flag only: the
\* statuses of a printer without a current job stand for all
DispatchReplies ==
  {r \in Replies : IF IsError(r) THEN TRUE
                   ELSE r.current_job_id = NoId /\ r.progress = CompletionThreshold}

\* BambuLabPrinter.is_connected / get_status: reply is what the device
\* answers, ConnectionErrorReply for a timeout
\* (faulty variant: get_status() answers without a connection)
get_status_MutNoCheck(c, reply) == reply
is_connected(c) == c
get_status(c, reply) == IF ~c THEN ConnectionErrorReply ELSE reply

\* (faulty variant: a default status for an adapter that is not connected)
get_printer_status_MutDefault(c, reply) ==
  IF ~c THEN [state |-> "offline", online |-> FALSE, current_job_id |-> NoId,
              progress |-> 0]
  ELSE reply
get_printer_status(c, reply) ==
  IF ~is_connected(c) THEN ConnectionErrorReply ELSE get_status(c, reply)

\* _process_next_job() up to the dequeue, st being what get_status() gave:
\* ConnectionError or a printer that cannot take a job leave the queue alone
\* (faulty variant: the job is dispatched whatever the status)
process_next_job_MutDispatch(q, st) == dequeue(q)
process_next_job(q, st) ==
  IF IsError(st) THEN [q |-> q, job |-> NoId]
  ELSE IF ~can_accept_job(st) THEN [q |-> q, job |-> NoId]
  ELSE dequeue(q)

\* status.current_job_id and job_id in status.current_job_id
matches(id, st) == st.current_job_id # NoId /\ st.current_job_id = id

\* _monitor_active_jobs() for one active id, st being what get_status()
\* gave: the progress copied when the status is about the job, and whether
\* the job is to be completed
\* (faulty variant: completion at any progress once the printer is idle)
monitor_job_MutNoThreshold(q, id, st) ==
  IF q.jobs[id] = NoJob \/ q.jobs[id].status # "PRINTING"
  THEN [q |-> q, complete |-> FALSE]
  ELSE IF IsError(st) THEN [q |-> q, complete |-> FALSE]
  ELSE IF ~matches(id, st) THEN [q |-> q, complete |-> FALSE]
  ELSE [q |-> [q EXCEPT !.jobs[id].progress = st.progress],
        complete |-> st.state = "idle"]
monitor_job(q, id, st) ==
  IF q.jobs[id] = NoJob \/ q.jobs[id].status # "PRINTING"
  THEN [q |-> q, complete |-> FALSE]
  ELSE IF IsError(st) THEN [q |-> q, complete |-> FALSE]
  ELSE IF matches(id, st)
  THEN [q |-> [q EXCEPT !.jobs[id].progress = st.progress],
        complete |-> st.state = "idle" /\ st.progress >= CompletionThreshold]
  ELSE [q |-> q, complete |-> FALSE]

\* start(): a no-op while running; else connect, then launch a loop thread.
\* pc["loop"] follows the oldest loop thread that is alive: a thread launched
\* while an earlier one has not exited is counted in loops only.
Start ==
  /\ pc["api"] = "idle"
  /\ ~running
  /\ loops < MaxLoopThreads
  /\ \/ /\ connected' = TRUE
        /\ running' = TRUE
        /\ loops' = loops + 1
        /\ pc' = IF pc["loop"] = "idle" THEN [pc EXCEPT !["loop"] = "top"] ELSE pc
     \/ /\ UNCHANGED <<connected, running, pc, loops>>    \* connect() raises
  /\ UNCHANGED <<qvars, files, ret, hvars, used, call, job, mon, cmds, returned>>

StartAgain ==
  /\ pc["api"] = "idle"
  /\ running
  /\ UNCHANGED vars

\* submit_job(): build the job with a fresh id and enqueue it
SubmitEnqueue(prio) ==
  /\ pc["api"] = "idle"
  /\ AgentIds \ used # {}
  /\ LET id == Min(AgentIds \ used)
         r == enqueue(QS, PrintJob(id, prio, "PENDING", DefaultMaxRetries))
     IN  /\ SetQ(r.q)
         /\ used' = used \cup {id}
         /\ call' = [op |-> "submit_job", id |-> id, dev |-> "none"]
  /\ Goto("api", "submit_save")
  /\ UNCHANGED <<files, ret, hvars, job, mon, connected, running, cmds, returned, loops>>

\* submit_job(): save, then return the job
SubmitSave ==
  /\ pc["api"] = "submit_save"
  /\ SaveOk
  /\ ret' = call.id
  /\ returned' = returned \cup {call.id}
  /\ Goto("api", "done")
  /\ UNCHANGED <<qvars, hvars, used, call, job, mon, connected, running, cmds, loops>>

\* cancel_job(): get_job, is_terminal, and the cancel command for a job that
\* is STARTING or PRINTING (a failure of the command is only logged)
CancelCheck(id) ==
  /\ pc["api"] = "idle"
  /\ IF jobs[id] = NoJob \/ is_terminal(jobs[id])
     THEN /\ ret' = "False"
          /\ call' = [op |-> "cancel_job", id |-> id, dev |-> "none"]
          /\ Goto("api", "done")
          /\ UNCHANGED cmds
     ELSE /\ IF jobs[id].status \in {"PRINTING", "STARTING"}
             THEN IF connected
                  THEN /\ Sent("cancel", id)
                       /\ \E outcome \in {"ok", "CommandError"} :
                            call' = [op |-> "cancel_job", id |-> id, dev |-> outcome]
                  ELSE /\ UNCHANGED cmds
                       /\ call' = [op |-> "cancel_job", id |-> id, dev |-> "not connected"]
             ELSE /\ UNCHANGED cmds
                  /\ call' = [op |-> "cancel_job", id |-> id, dev |-> "none"]
          /\ Goto("api", "cancel_status")
          /\ UNCHANGED ret
  /\ UNCHANGED <<qvars, files, hvars, used, job, mon, connected, running, returned, loops>>

\* cancel_job(): job.status = CANCELLED; queue.update_job(job)
CancelSetStatus ==
  /\ pc["api"] = "cancel_status"
  /\ IF jobs[call.id] = NoJob
     THEN /\ ret' = "ValidationError"
          /\ Goto("api", "done")
          /\ UNCHANGED jobs
     ELSE /\ SetStatus(call.id, "CANCELLED")
          /\ Goto("api", "cancel_mark")
          /\ UNCHANGED ret
  /\ UNCHANGED <<state, files, hvars, used, call, job, mon, connected, running, cmds, returned, loops>>

\* cancel_job(): queue.mark_failed(job_id, "Cancelled by user")
CancelMark ==
  /\ pc["api"] = "cancel_mark"
  /\ SetQ(mark_failed(QS, call.id, "Cancelled by user").q)
  /\ Goto("api", "cancel_save")
  /\ UNCHANGED <<files, ret, hvars, used, call, job, mon, connected, running, cmds, returned, loops>>

\* cancel_job(): queue.save(); return True
CancelSave ==
  /\ pc["api"] = "cancel_save"
  /\ SaveOk
  /\ ret' = "True"
  /\ Goto("api", "done")
  /\ UNCHANGED <<qvars, hvars, used, call, job, mon, connected, running, cmds, returned, loops>>

\* The call has returned (or raised) to the caller
ApiReturn ==
  /\ pc["api"] = "done"
  /\ Goto("api", "idle")
  /\ call' = NoCall
  /\ ret' = None
  /\ UNCHANGED <<qvars, files, hvars, used, job, mon, connected, running, cmds, returned, loops>>

\* _process_next_job(): the printer cannot take a job, or get_status() raised
\* ConnectionError
DispatchSkip ==
  /\ pc["loop"] = "top" /\ running
  /\ \E reply \in DispatchReplies :
       LET st == get_status(connected, reply)
           r == process_next_job(QS, st)
       IN  /\ IF IsError(st) THEN TRUE ELSE ~can_accept_job(st)
           /\ SetQ(r.q)
           /\ job' = r.job
           /\ Goto("loop", IF r.job = NoId THEN "monitor" ELSE "exec_uploading")
  /\ UNCHANGED <<files, ret, hvars, used, call, mon, connected, running, cmds, returned, loops>>

\* _process_next_job(): the printer is idle and online; dequeue
DispatchDequeue ==
  /\ pc["loop"] = "top" /\ running
  /\ \E reply \in DispatchReplies :
       LET st == get_status(connected, reply)
           r == process_next_job(QS, st)
       IN  /\ IF IsError(st) THEN FALSE ELSE can_accept_job(st)
           /\ SetQ(r.q)
           /\ job' = r.job
           /\ Goto("loop", IF r.job = NoId THEN "monitor" ELSE "exec_uploading")
  /\ UNCHANGED <<files, ret, hvars, used, call, mon, connected, running, cmds, returned, loops>>

\* _process_queue(): except Exception: log, back off, next iteration
ProcessQueueExcept_MutExit == "idle"
ProcessQueueExcept == "top"

\* The loop's local variable job goes out of scope where the work on the job
\* ends
Leave(to) == job' = IF to \in {"top", "monitor", "mon_loop", "idle"} THEN NoId ELSE job

\* job.status = <st>; queue.update_job(job) in the loop thread: ValidationError
\* when the record is gone
LoopSetStatus(from, st, to, onError) ==
  /\ pc["loop"] = from
  /\ IF jobs[job] = NoJob
     THEN Goto("loop", onError) /\ UNCHANGED jobs /\ Leave(onError)
     ELSE SetStatus(job, st) /\ Goto("loop", to) /\ UNCHANGED job
  /\ UNCHANGED <<state, files, ret, hvars, used, call, mon, connected, running, cmds, returned, loops>>

\* queue.save() in the loop thread
LoopSave(from, to) ==
  /\ pc["loop"] = from
  /\ SaveOk
  /\ Goto("loop", to)
  /\ Leave(to)
  /\ UNCHANGED <<qvars, ret, hvars, used, call, mon, connected, running, cmds, returned, loops>>

\* _execute_job()
ExecUploading == LoopSetStatus("exec_uploading", "UPLOADING", "exec_uploading_save", "fail")
ExecUploadingSave == LoopSave("exec_uploading_save", "exec_upload")

ExecUpload ==
  /\ pc["loop"] = "exec_upload"
  /\ Sent("upload", job)
  /\ \/ Goto("loop", "exec_starting")
     \/ Goto("loop", "fail")          \* UploadError, AuthenticationError, ValidationError
  /\ UNCHANGED <<qvars, files, ret, hvars, used, call, job, mon, connected, running, returned, loops>>

ExecStarting == LoopSetStatus("exec_starting", "STARTING", "exec_starting_save", "fail")
ExecStartingSave == LoopSave("exec_starting_save", "exec_start")

ExecStart ==
  /\ pc["loop"] = "exec_start"
  /\ IF connected
     THEN /\ Sent("start", job)
          /\ \/ Goto("loop", "exec_printing")
             \/ Goto("loop", "fail")  \* CommandError
     ELSE /\ Goto("loop", "fail")     \* ConnectionError
          /\ UNCHANGED cmds
  /\ UNCHANGED <<qvars, files, ret, hvars, used, call, job, mon, connected, running, returned, loops>>

ExecPrinting == LoopSetStatus("exec_printing", "PRINTING", "exec_printing_save", "fail")
ExecPrintingSave == LoopSave("exec_printing_save", "monitor")

\* _handle_job_failure(): the error message, the retry count, can_retry()
\* and the first status written
HandleJobFailure ==
  /\ pc["loop"] = "fail"
  /\ IF jobs[job] = NoJob
     THEN Goto("loop", ProcessQueueExcept) /\ UNCHANGED jobs /\ Leave("top")
     ELSE LET j1 == [jobs[job] EXCEPT !.error_message = WorkflowError,
                                      !.retry_count = @ + 1]
          IN  IF can_retry(j1)
              THEN /\ jobs' = [jobs EXCEPT ![job] = [j1 EXCEPT !.status = "RETRYING"]]
                   /\ Goto("loop", "fail_requeue")
                   /\ UNCHANGED job
              ELSE /\ jobs' = [jobs EXCEPT ![job] = [j1 EXCEPT !.status = "FAILED"]]
                   /\ Goto("loop", "fail_mark")
                   /\ UNCHANGED job
  /\ UNCHANGED <<state, files, ret, hvars, used, call, mon, connected, running, cmds, returned, loops>>

\* _handle_job_failure(): job.status = PENDING; queue.enqueue(job), which
\* raises ValidationError while the job has a record
FailRequeue ==
  /\ pc["loop"] = "fail_requeue"
  /\ IF jobs[job] = NoJob
     THEN Goto("loop", ProcessQueueExcept) /\ UNCHANGED qvars /\ Leave("top")
     ELSE LET r == enqueue([jobs |-> [jobs EXCEPT ![job].status = "PENDING"], state |-> state],
                           [jobs[job] EXCEPT !.status = "PENDING"])
          IN  /\ SetQ(r.q)
              /\ Goto("loop", IF r.raised = None THEN "fail_save" ELSE ProcessQueueExcept)
              /\ Leave(IF r.raised = None THEN "fail_save" ELSE "top")
  /\ UNCHANGED <<files, ret, hvars, used, call, mon, connected, running, cmds, returned, loops>>

\* _handle_job_failure(): queue.mark_failed(job.job_id, error_message)
FailMark ==
  /\ pc["loop"] = "fail_mark"
  /\ SetQ(mark_failed(QS, job, WorkflowError).q)
  /\ Goto("loop", "fail_save")
  /\ UNCHANGED <<files, ret, hvars, used, call, job, mon, connected, running, cmds, returned, loops>>

FailSave == LoopSave("fail_save", "monitor")

\* _monitor_active_jobs(): queue_state = self.queue.get_state()
Monitor ==
  /\ pc["loop"] = "monitor"
  /\ mon' = state.active
  /\ Goto("loop", "mon_loop")
  /\ UNCHANGED <<qvars, files, ret, hvars, used, call, job, connected, running, cmds, returned, loops>>

\* _monitor_active_jobs(): the next id is skipped: no record, not PRINTING,
\* ConnectionError, or a status about another job
MonitorSkip ==
  /\ pc["loop"] = "mon_loop"
  /\ mon # <<>>
  /\ \E reply \in Replies :
       LET r == monitor_job(QS, Head(mon), get_status(connected, reply))
       IN  /\ IF jobs[Head(mon)] = NoJob THEN TRUE
              ELSE IF jobs[Head(mon)].status # "PRINTING" THEN TRUE
              ELSE IF IsError(get_status(connected, reply)) THEN TRUE
              ELSE ~matches(Head(mon), reply)
           /\ SetQ(r.q)
           /\ IF r.complete
              THEN job' = Head(mon) /\ Goto("loop", "complete")
              ELSE UNCHANGED <<job, pc>>
  /\ mon' = Tail(mon)
  /\ UNCHANGED <<files, ret, hvars, used, call, connected, running, cmds, returned, loops>>

\* _monitor_active_jobs(): the status is about this job: copy the progress,
\* and complete the job when the printer is idle at 99 % or more
MonitorUpdate(st) ==
  /\ pc["loop"] = "mon_loop"
  /\ mon # <<>>
  /\ LET id == Head(mon)
         r == monitor_job(QS, id, get_status(connected, st))
     IN  /\ jobs[id] # NoJob /\ jobs[id].status = "PRINTING"
         /\ IF IsError(get_status(connected, st)) THEN FALSE ELSE matches(id, st)
         /\ SetQ(r.q)
         /\ mon' = Tail(mon)
         /\ IF r.complete
            THEN job' = id /\ Goto("loop", "complete")
            ELSE UNCHANGED <<job, pc>>
  /\ UNCHANGED <<files, ret, hvars, used, call, connected, running, cmds, returned, loops>>

\* _handle_job_completion()
Complete == LoopSetStatus("complete", "COMPLETED", "complete_mark", ProcessQueueExcept)

CompleteMark ==
  /\ pc["loop"] = "complete_mark"
  /\ SetQ(mark_completed(QS, job).q)
  /\ Goto("loop", "complete_save")
  /\ UNCHANGED <<files, ret, hvars, used, call, job, mon, connected, running, cmds, returned, loops>>

CompleteSave == LoopSave("complete_save", "mon_loop")

\* _process_queue(): every active id visited; the hourly
\* clear_terminal_jobs(), then the sleep
Housekeeping ==
  /\ pc["loop"] = "mon_loop"
  /\ mon = <<>>
  /\ \/ SetQ(clear_terminal_jobs(QS, KeepCountDefault).q)
     \/ UNCHANGED qvars              \* not on the hour
  /\ Goto("loop", "top")
  /\ UNCHANGED <<files, ret, hvars, used, call, job, mon, connected, running, cmds, returned, loops>>

Next ==
  \/ Start
  \/ StartAgain
  \/ \E prio \in Priorities : SubmitEnqueue(prio)
  \/ SubmitSave
  \/ \E id \in AgentIds : CancelCheck(id)
  \/ CancelSetStatus
  \/ CancelMark
  \/ CancelSave
  \/ ApiReturn
  \/ DispatchSkip
  \/ DispatchDequeue
  \/ ExecUploading
  \/ ExecUploadingSave
  \/ ExecUpload
  \/ ExecStarting
  \/ ExecStartingSave
  \/ ExecStart
  \/ ExecPrinting
  \/ ExecPrintingSave
  \/ HandleJobFailure
  \/ FailRequeue
  \/ FailMark
  \/ FailSave
  \/ Monitor
  \/ MonitorSkip
  \/ \E st \in DeviceStatuses : MonitorUpdate(st)
  \/ Complete
  \/ CompleteMark
  \/ CompleteSave
  \/ Housekeeping

Spec == InitAgent /\ [][Next]_vars

\* ------------------------------------- SpecLife: start, stop and the loop
\* The agent over the queue file it finds, started and stopped any number
\* of times, with cancel_job and get_printer_status calls in between.

\* get_printer_status(): ret is the state of the status returned, or the
\* error raised
GetPrinterStatus ==
  /\ pc["api"] = "idle"
  /\ \E reply \in Replies :
       LET r == get_printer_status(connected, reply)
       IN  ret' = IF IsError(r) THEN r.error ELSE r.state
  /\ call' = [op |-> "get_printer_status", id |-> NoId, dev |-> "none"]
  /\ Goto("api", "done")
  /\ UNCHANGED <<qvars, files, hvars, used, job, mon, connected, running, cmds, returned, loops>>

\* stop(): nothing to do when the agent is not running
StopIdle ==
  /\ pc["api"] = "idle"
  /\ ~running
  /\ UNCHANGED vars

\* stop(): self._running = False
StopBegin ==
  /\ pc["api"] = "idle"
  /\ running
  /\ running' = FALSE
  /\ call' = [op |-> "stop", id |-> NoId, dev |-> "none"]
  /\ Goto("api", "stop_join")
  /\ UNCHANGED <<qvars, files, ret, hvars, used, job, mon, connected, cmds, returned, loops>>

\* stop(): self._thread.join(timeout=60) returns, the thread exited or not
StopJoin ==
  /\ pc["api"] = "stop_join"
  /\ call' = [call EXCEPT !.dev = IF loops = 0 THEN "joined" ELSE "join timed out"]
  /\ Goto("api", "stop_save")
  /\ UNCHANGED <<qvars, files, ret, hvars, used, job, mon, connected, running, cmds, returned, loops>>

\* stop(): try: self.queue.save() except QueueError: log
stop_catches_MutNothing(exc) == FALSE
stop_catches(exc) == exc = "QueueError"

StopSave ==
  /\ pc["api"] = "stop_save"
  /\ \/ /\ SaveOk
        /\ Goto("api", "stop_disconnect")
        /\ UNCHANGED <<ret, call>>
     \/ /\ files' = save_open(files, save_document(QS))   \* the write fails
        /\ IF stop_catches("QueueError")
           THEN /\ Goto("api", "stop_disconnect")
                /\ call' = [call EXCEPT !.dev = @ \o ", save failed"]
                /\ UNCHANGED ret
           ELSE /\ Goto("api", "done")
                /\ ret' = "QueueError"
                /\ UNCHANGED call
  /\ UNCHANGED <<qvars, hvars, used, job, mon, connected, running, cmds, returned, loops>>

\* stop(): self.printer.disconnect(), which swallows what the client raises
StopDisconnect ==
  /\ pc["api"] = "stop_disconnect"
  /\ \/ connected' = FALSE
     \/ connected /\ connected' = connected
  /\ call' = [call EXCEPT !.dev = @ \o ", disconnect called"]
  /\ Goto("api", "done")
  /\ UNCHANGED <<qvars, files, ret, hvars, used, job, mon, running, cmds, returned, loops>>

\* _process_queue(): while self._running is false, the thread ends;
\* pc["loop"] goes on with the next loop thread alive, if any
LoopExit ==
  /\ pc["loop"] = "top"
  /\ ~running
  /\ loops' = loops - 1
  /\ Goto("loop", IF loops > 1 THEN "top" ELSE "idle")
  /\ UNCHANGED <<qvars, files, ret, hvars, used, call, job, mon, connected, running, cmds, returned>>

NextLife ==
  \/ Start
  \/ StartAgain
  \/ StopIdle
  \/ StopBegin
  \/ StopJoin
  \/ StopSave
  \/ StopDisconnect
  \/ GetPrinterStatus
  \/ \E id \in AgentIds : CancelCheck(id)
  \/ CancelSetStatus
  \/ CancelMark
  \/ CancelSave
  \/ ApiReturn
  \/ DispatchSkip
  \/ DispatchDequeue
  \/ ExecUploading
  \/ ExecUploadingSave
  \/ ExecUpload
  \/ ExecStarting
  \/ ExecStartingSave
  \/ ExecStart
  \/ ExecPrinting
  \/ ExecPrintingSave
  \/ HandleJobFailure
  \/ FailRequeue
  \/ FailMark
  \/ FailSave
  \/ Monitor
  \/ MonitorSkip
  \/ \E st \in DeviceStatuses : MonitorUpdate(st)
  \/ Complete
  \/ CompleteMark
  \/ CompleteSave
  \/ Housekeeping
  \/ LoopExit

\* The file a startup finds: none, or one pending job that may not be
\* retried, or one with the default max_retries
LifeFiles ==
  {NoFiles} \cup
  {save(NoFiles, enqueue(EmptyQueue, PrintJob(1, 0, "PENDING", mr)).q) :
     mr \in {0, DefaultMaxRetries}}

InitLife ==
  /\ files \in LifeFiles
  /\ jobs = PrintQueue(files).q.jobs
  /\ state = PrintQueue(files).q.state
  /\ used = {id \in JobIds : PrintQueue(files).q.jobs[id] # NoJob}
  /\ ret = None
  /\ hist = <<>>
  /\ logging = FALSE
  /\ pc = [t \in Threads |-> "idle"]
  /\ call = NoCall
  /\ job = NoId
  /\ mon = <<>>
  /\ connected = FALSE
  /\ running = FALSE
  /\ cmds = [c \in Commands \X JobIds |-> 0]
  /\ returned = {}
  /\ loops = 0

SpecLife == InitLife /\ [][NextLife]_vars

\* --------------------------------------- SpecSave: save() step by step
\* Two threads share one PrintQueue.  Every operation runs under
\* PrintQueue._lock; save() holds it from the serialization to the rename,
\* and the process may die between any two steps.
SaveSection == {"save_write", "save_replace"}

\* (faulty variant: no lock)
lock_free_MutUnlocked(t) == TRUE
\* with self._lock: thread t gets the lock when no other thread is inside
lock_free(t) == \A u \in Threads \ {t} : pc[u] \notin SaveSection

\* enqueue, dequeue or mark_failed by thread t
LockedOp(t) ==
  /\ pc[t] = "idle"
  /\ lock_free(t)
  /\ \/ \E id \in StoreIds : QEnqueue(id, "PENDING", 0)
     \/ QDequeue
     \/ \E id \in StoreIds : QMarkFailed(id, "Test error")

\* save(): take the lock, serialize, open the temporary file for writing
SaveBegin(t) ==
  /\ pc[t] = "idle"
  /\ lock_free(t)
  /\ files' = save_open(files, save_document(QS))
  /\ Goto(t, "save_write")
  /\ UNCHANGED <<qvars, ret, hvars, used, call, job, mon, connected, running, cmds, returned, loops>>

\* save(): json.dump finishes and the temporary file is closed
SaveWrite(t) ==
  /\ pc[t] = "save_write"
  /\ files' = save_write(files)
  /\ Goto(t, "save_replace")
  /\ UNCHANGED <<qvars, ret, hvars, used, call, job, mon, connected, running, cmds, returned, loops>>

\* save(): temp_path.replace(queue_path), which raises when the temporary
\* file is gone; the lock is released
SaveReplace(t) ==
  /\ pc[t] = "save_replace"
  /\ files' = IF files.tmp.written = "absent" THEN files ELSE save_replace(files)
  /\ ret' = IF files.tmp.written = "absent" THEN "QueueError" ELSE "saved"
  /\ Goto(t, "idle")
  /\ UNCHANGED <<qvars, hvars, used, call, job, mon, connected, running, cmds, returned, loops>>

\* The process dies; the files stay as they are and a new PrintQueue loads
\* the queue file
SaveCrash ==
  /\ PrintQueue(files).raised = None
  /\ SetQ(PrintQueue(files).q)
  /\ pc' = [t \in Threads |-> "idle"]
  /\ ret' = "crashed"
  /\ UNCHANGED <<files, hvars, used, call, job, mon, connected, running, cmds, returned, loops>>

NextSave ==
  \/ \E t \in Threads : LockedOp(t)
  \/ \E t \in Threads : SaveBegin(t)
  \/ \E t \in Threads : SaveWrite(t)
  \/ \E t \in Threads : SaveReplace(t)
  \/ SaveCrash

SpecSave == Init /\ [][NextSave]_vars

\* ------------------------------------------------------------------ claims
ListsOf(id) ==
  {l \in {"pending", "active", "completed", "failed"} : Contains(state[l], id)}

\* C1: after any sequence of enqueue, dequeue, mark_completed and mark_failed,
\* every job id that has a record is in exactly one of the four lists.
C1_ExactlyOneList ==
  \A id \in JobIds : jobs[id] # NoJob => Cardinality(ListsOf(id)) = 1

\* C2: when failure handling ends for a job whose retry_count, already
\* incremented, is below max_retries, the job has status PENDING and its id
\* is in the pending list and in neither active nor failed.
FailureHandled ==
  /\ pc["loop"] \in {"fail_requeue", "fail_save"}
  /\ pc'["loop"] \in {"top", "monitor"}

C2_RetryRequeues ==
  [][(FailureHandled /\ jobs'[job] # NoJob
      /\ jobs'[job].retry_count < jobs'[job].max_retries)
     => /\ jobs'[job].status = "PENDING"
        /\ Contains(state'.pending, job)
        /\ ~Contains(state'.active, job)
        /\ ~Contains(state'.failed, job)]_vars

\* C3: in every reachable state of the agent, every job's retry_count is at
\* most its max_retries.
C3_RetryBound ==
  \A id \in JobIds : jobs[id] # NoJob => jobs[id].retry_count <= jobs[id].max_retries

\* C4: when cancel_job returns true, the job's stored status is CANCELLED and
\* its id is in neither the pending nor the active list.
CancelReturned(r) ==
  pc["api"] = "done" /\ call.op = "cancel_job" /\ ret = r

C4_CancelStored ==
  CancelReturned("True") =>
    /\ jobs[call.id].status = "CANCELLED"
    /\ ~Contains(state.pending, call.id)
    /\ ~Contains(state.active, call.id)

\* C5: cancel_job on an id without a record, or on a job whose status is
\* COMPLETED, FAILED, CANCELLED or ERROR, returns false and changes no job
\* record, no list, not the queue file, and sends no device command.
CancelCalled(id) ==
  pc["api"] = "idle" /\ call'.op = "cancel_job" /\ call'.id = id

C5_CancelNoOp ==
  [][\A id \in AgentIds :
       ( /\ CancelCalled(id)
         /\ \/ jobs[id] = NoJob
            \/ jobs[id].status \in {"COMPLETED", "FAILED", "CANCELLED", "ERROR"} )
       => /\ pc'["api"] = "done"
          /\ ret' = "False"
          /\ UNCHANGED <<jobs, state, files, cmds>>]_vars

\* A second cancel_job on a job that was cancelled has returned false
C5_Witness ==
  /\ CancelReturned("False")
  /\ jobs[call.id] # NoJob
  /\ jobs[call.id].status = "FAILED"
  /\ jobs[call.id].error_message = "Cancelled by user"
  /\ cmds[<<"cancel", call.id>>] > 0

\* Positions of a job's events in the history of the pending list (0: none)
PosOf(op, id) ==
  IF \E k \in 1..Len(hist) : hist[k].op = op /\ hist[k].id = id
  THEN CHOOSE k \in 1..Len(hist) : hist[k].op = op /\ hist[k].id = id
  ELSE 0
EnqPos(id) == PosOf("enq", id)
DeqPos(id) == PosOf("deq", id)
Removed(id) == PosOf("rm", id) > 0
EnqPrio(id) == IF EnqPos(id) > 0 THEN hist[EnqPos(id)].prio ELSE -1

\* C6: of two priority-0 jobs, neither removed from pending by a
\* cancellation, the one enqueued first is dequeued first.
C6_Fifo ==
  \A a, b \in JobIds :
    ( /\ EnqPos(a) > 0 /\ EnqPos(b) > EnqPos(a)
      /\ EnqPrio(a) = 0 /\ EnqPrio(b) = 0
      /\ ~Removed(a) /\ ~Removed(b)
      /\ DeqPos(b) > 0 )
    => (DeqPos(a) > 0 /\ DeqPos(a) < DeqPos(b))

C6_Witness ==
  \E a, b, c \in JobIds :
    /\ EnqPos(a) > 0 /\ EnqPos(c) > EnqPos(a) /\ EnqPos(b) > EnqPos(c)
    /\ EnqPrio(a) = 0 /\ EnqPrio(b) = 0 /\ EnqPrio(c) > 0
    /\ DeqPos(a) > 0 /\ DeqPos(b) > DeqPos(a)

\* Whether job p was in the pending list when event number k was recorded
PendingAt(p, k) ==
  /\ EnqPos(p) > 0 /\ EnqPos(p) < k
  /\ ~(DeqPos(p) > 0 /\ DeqPos(p) < k)
  /\ ~(PosOf("rm", p) > 0 /\ PosOf("rm", p) < k)

\* C7: a job enqueued with priority > 0 is dequeued before every priority-0
\* job that was pending when it was enqueued, and priority > 0 jobs enqueued
\* with no dequeue in between are dequeued in reverse order of their enqueue.
C7_Priority ==
  /\ \A h, p \in JobIds :
       ( /\ EnqPos(h) > 0 /\ EnqPrio(h) > 0 /\ ~Removed(h)
         /\ PendingAt(p, EnqPos(h)) /\ EnqPrio(p) = 0
         /\ DeqPos(p) > 0 )
       => (DeqPos(h) > 0 /\ DeqPos(h) < DeqPos(p))
  /\ \A h1, h2 \in JobIds :
       ( /\ EnqPos(h1) > 0 /\ EnqPos(h2) > EnqPos(h1)
         /\ EnqPrio(h1) > 0 /\ EnqPrio(h2) > 0
         /\ ~Removed(h1) /\ ~Removed(h2)
         /\ \A k \in EnqPos(h1)..EnqPos(h2) : hist[k].op # "deq"
         /\ DeqPos(h1) > 0 )
       => (DeqPos(h2) > 0 /\ DeqPos(h2) < DeqPos(h1))

C7_Witness ==
  \E p, h1, h2 \in JobIds :
    /\ EnqPrio(p) = 0 /\ EnqPrio(h1) > 0 /\ EnqPrio(h2) > 0
    /\ EnqPos(p) > 0 /\ EnqPos(h1) = EnqPos(p) + 1 /\ EnqPos(h2) = EnqPos(h1) + 1
    /\ DeqPos(h2) > 0 /\ DeqPos(h1) > DeqPos(h2) /\ DeqPos(p) > DeqPos(h1)

C9_AtomicSave ==
  /\ [](files.queue.written \in {"absent", "full"})
  /\ [](Cardinality({t \in Threads : pc[t] \in SaveSection}) <= 1)
  /\ [][files'.queue # files.queue =>
          files'.queue = [written |-> "full", data |-> save_document(QS)]]_vars

\* A crash in the middle of a save(): the temporary file is half written,
\* the queue file is the complete previous snapshot and the restart loaded it
C9_Witness ==
  /\ ret = "crashed"
  /\ files.tmp.written = "partial"
  /\ files.queue.written = "full"
  /\ files.queue.data # files.tmp.data
  /\ QS = PrintQueue(files).q
  /\ \E id \in StoreIds : jobs[id] # NoJob

\* Whether the queue a restart would load from the file holds job id
Stored(id) ==
  LET r == PrintQueue(files)
  IN  r.raised = None /\ r.q.jobs[id] # NoJob /\ r.q.jobs[id].job_id = id

SubmitReturned(id) ==
  pc["api"] = "done" /\ call.op = "submit_job" /\ ret = id

C11_LoopExitsOnlyWhenStopped ==
  [][(loops' < loops \/ (pc["loop"] # "idle" /\ pc'["loop"] = "idle"))
     => ~running]_vars

\* The re-enqueue of failure handling raised, the loop went on, and the
\* thread ended after a stop()
C11_Witness ==
  /\ pc["api"] = "done" /\ call.op = "stop"
  /\ loops = 0 /\ pc["loop"] = "idle"
  /\ \E id \in AgentIds :
       /\ jobs[id] # NoJob
       /\ jobs[id].status = "PENDING"
       /\ jobs[id].retry_count > 0
       /\ ~Contains(state.pending, id)

\* C12: a ConnectionError from get_status() at the start of the dispatch
\* step or in the monitor step changes no job record and no list: the
\* dispatch step dequeues nothing, the monitor step updates and completes
\* nothing, and a monitor step of an adapter that is not connected leaves
\* the records and the lists as they are.
C12_ConnectionErrorFrame ==
  /\ [](process_next_job(QS, ConnectionErrorReply) = [q |-> QS, job |-> NoId])
  /\ [](\A id \in AgentIds :
          monitor_job(QS, id, ConnectionErrorReply) = [q |-> QS, complete |-> FALSE])
  /\ [][(~connected /\ pc["loop"] = "mon_loop" /\ mon # <<>> /\ mon' = Tail(mon))
        => (UNCHANGED <<jobs, state>> /\ pc'["loop"] = "mon_loop")]_vars

\* The loop is about to query the status for a PRINTING job, the adapter
\* disconnected by a stop() whose join timed out; a job is pending
C12_Witness ==
  /\ ~connected /\ loops > 0
  /\ pc["loop"] = "mon_loop" /\ mon # <<>>
  /\ jobs[Head(mon)] # NoJob /\ jobs[Head(mon)].status = "PRINTING"
  /\ Contains(state.active, Head(mon))

\* C13: when the monitor step has read, for an active PRINTING job, a status
\* that names the job, is idle and has progress >= 99, then after the step
\* (_handle_job_completion has called mark_completed) the job has status
\* COMPLETED, is in the completed list and is not in the active list; and
\* monitor_job() completes a job for no other status.
C13_MonitorCompletes ==
  /\ \A id \in AgentIds : \A st \in DeviceStatuses :
       monitor_job(QS, id, st).complete =>
         (matches(id, st) /\ st.state = "idle" /\ st.progress >= CompletionThreshold)
  /\ pc["loop"] = "complete_save" =>
       /\ jobs[job] # NoJob /\ jobs[job].status = "COMPLETED"
       /\ Contains(state.completed, job)
       /\ ~Contains(state.active, job)

\* ------------------------------------ SpecLoaded: a queue read from a file
\* The queue is constructed over an existing queue file.  load() takes the
\* lists and the job records of the document as they are, so a pending id
\* of the file need not have a record.
StoredPending ==
  {s \in UNION {[1..n -> JobIds] : n \in 0..NumJobs} :
     \A i, j \in 1..Len(s) : i # j => s[i] # s[j]}

StoredDocuments ==
  {[state |-> [EmptyState EXCEPT !.pending = p],
    jobs |-> [id \in R |-> model_dump_job(PrintJob(id, 0, "PENDING", DefaultMaxRetries))]] :
     p \in StoredPending, R \in SUBSET JobIds}

InitLoaded ==
  /\ \E doc \in StoredDocuments :
       /\ files = [queue |-> [written |-> "full", data |-> doc], tmp |-> Absent]
       /\ used = DOMAIN doc.jobs \cup Range(doc.state.pending)
  /\ jobs = PrintQueue(files).q.jobs
  /\ state = PrintQueue(files).q.state
  /\ ret = None
  /\ hist = <<>>
  /\ logging = FALSE
  /\ pc = [t \in Threads |-> "idle"]
  /\ call = NoCall
  /\ job = NoId
  /\ mon = <<>>
  /\ connected = FALSE
  /\ running = FALSE
  /\ cmds = [c \in Commands \X JobIds |-> 0]
  /\ returned = {}
  /\ loops = 0

NextLoaded ==
  \/ \E id \in JobIds, prio \in Priorities : QEnqueue(id, "PENDING", prio)
  \/ QDequeue
  \/ \E id \in JobIds : QMarkCompleted(id)
  \/ \E id \in JobIds : QMarkFailed(id, "Test error")
  \/ \E keep \in 0..MaxKeep : QClear(keep)

SpecLoaded == InitLoaded /\ [][NextLoaded]_vars

\* The pending ids that have a job record, in list order
HasRecord(q, id) == q.jobs[id] # NoJob
FirstWithRecord(q) ==
  LET p == q.state.pending
  IN  IF \E k \in 1..Len(p) : HasRecord(q, p[k])
      THEN p[CHOOSE k \in 1..Len(p) :
                HasRecord(q, p[k]) /\ \A m \in 1..(k - 1) : ~HasRecord(q, p[m])]
      ELSE NoId

\* C14: dequeue() returns the empty result only if no pending id has a job
\* record: it returns the first pending job that has a record and moves it
\* to active, the pending ids without a record before it being dropped.
C14_DequeueSkipsDangling ==
  LET r == dequeue(QS)
  IN  /\ r.job = FirstWithRecord(QS)
      /\ r.job # NoId => Contains(r.q.state.active, r.job)

ListsIn(st, id) ==
  {l \in {"pending", "active", "completed", "failed"} : Contains(st[l], id)}

\* C15: for a job whose id is in the pending or in the active list,
\* mark_completed(id) returns true and leaves the id in the completed list
\* only, with stored status COMPLETED, and mark_failed(id, reason) returns
\* true and leaves the id in the failed list only, with stored status
\* FAILED; a call that returns false has changed neither the lists nor the
\* stored status of the job.
C15_MarkMoves ==
  \A id \in JobIds :
    LET c == mark_completed(QS, id)
        f == mark_failed(QS, id, "Test error")
    IN  /\ (jobs[id] # NoJob /\ ListsIn(state, id) \in {{"pending"}, {"active"}}) =>
             /\ c.ok /\ ListsIn(c.q.state, id) = {"completed"}
             /\ c.q.jobs[id].status = "COMPLETED"
             /\ f.ok /\ ListsIn(f.q.state, id) = {"failed"}
             /\ f.q.jobs[id].status = "FAILED"
        /\ ~c.ok => (c.q.state = state /\ c.q.jobs[id] = jobs[id])
        /\ ~f.ok => (f.q.state = state /\ f.q.jobs[id] = jobs[id])

LastOf(s, k) == SubSeq(s, Len(s) - Min({Len(s), k}) + 1, Len(s))
DroppedOf(s, k) == SubSeq(s, 1, Len(s) - Min({Len(s), k}))

\* C16: for every keep_count >= 0, 0 included, clear_terminal_jobs(keep_count)
\* leaves the completed and the failed list each equal to their last
\* min(length, keep_count) entries, removes the job records of exactly the
\* dropped ids, leaves pending and active unchanged, and returns the number
\* of ids dropped.
C16_ClearKeepsLast ==
  \A keep \in 0..MaxKeep :
    LET r == clear_terminal_jobs(QS, keep)
        dropped == Range(DroppedOf(state.completed, keep))
                     \cup Range(DroppedOf(state.failed, keep))
    IN  /\ r.q.state.completed = LastOf(state.completed, keep)
        /\ r.q.state.failed = LastOf(state.failed, keep)
        /\ r.q.state.pending = state.pending
        /\ r.q.state.active = state.active
        /\ \A id \in JobIds :
             r.q.jobs[id] = IF id \in dropped THEN NoJob ELSE jobs[id]
        /\ r.removed = Len(DroppedOf(state.completed, keep))
                         + Len(DroppedOf(state.failed, keep))

\* C17: enqueue(job) with a job id that has a record in the queue, whatever
\* list the id is in and whatever status and priority the job carries, fails
\* with the duplicate-job ValidationError and leaves the four lists and
\* every job record unchanged.
C17_DuplicateRefused ==
  \A id \in JobIds : \A st \in EnqueueStatuses : \A prio \in Priorities :
    jobs[id] # NoJob =>
      enqueue(QS, PrintJob(id, prio, st, DefaultMaxRetries))
        = [q |-> QS, raised |-> "ValidationError"]

\* A dequeued job (active, with a record) is offered again next to a pending
\* and a failed one
C17_Witness ==
  \E a, p, f \in JobIds :
    /\ jobs[a] # NoJob /\ ListsOf(a) = {"active"}
    /\ jobs[p] # NoJob /\ ListsOf(p) = {"pending"}
    /\ jobs[f] # NoJob /\ ListsOf(f) = {"failed"}
    /\ enqueue(QS, [jobs[a] EXCEPT !.status = "PENDING"]).raised = "ValidationError"

\* C18: for any sequence of start() and stop() calls, a stop() whose join
\* timed out followed by a new start() included, at most one control-loop
\* thread is executing iterations at any time; and start() launches a thread
\* only while the agent is not running.
C18_OneLoopThread ==
  /\ [](loops <= 1)
  /\ [][loops' > loops => (~running /\ running')]_vars

\* What stop() has gone through when it returns
StopOutcomes ==
  {j \o s \o ", disconnect called" :
     j \in {"joined", "join timed out"}, s \in {"", ", save failed"}}

\* C19: stop() on a running agent always reaches the adapter's disconnect
\* and returns without raising, also when the join timed out with the loop
\* thread alive and when the final save failed with a QueueError; the agent
\* is then not running.
C19_StopReachesDisconnect ==
  /\ (pc["api"] = "done" /\ call.op = "stop") =>
       /\ ret = None
       /\ call.dev \in StopOutcomes
       /\ ~running
  /\ pc["api"] \in {"stop_join", "stop_save", "stop_disconnect"} =>
       (call.op = "stop" /\ ~running)

\* stop() has returned after a join that timed out (the loop thread is
\* alive) and a save that failed
C19_Witness ==
  /\ pc["api"] = "done" /\ call.op = "stop"
  /\ call.dev = "join timed out, save failed, disconnect called"
  /\ loops > 0 /\ pc["loop"] # "idle"
  /\ files.tmp.written = "partial"
  /\ ~running /\ ret = None

\* C20: get_printer_status() raises ConnectionError, and returns no status,
\* whenever the adapter is not connected (before start(), after stop(),
\* after a failed connect); the call changes no list, no job record and no
\* file.
C20_StatusNeedsConnection ==
  /\ [](\A reply \in Replies :
          ~connected => get_printer_status(connected, reply) = ConnectionErrorReply)
  /\ [][(pc["api"] = "idle" /\ call'.op = "get_printer_status")
        => /\ UNCHANGED <<jobs, state, files, connected, running>>
           /\ ~connected => ret' = "ConnectionError"]_vars

\* The call has raised after a stop() that left a job in the queue
C20_Witness ==
  /\ pc["api"] = "done" /\ call.op = "get_printer_status"
  /\ ret = "ConnectionError"
  /\ ~connected /\ ~running /\ loops = 0
  /\ \E id \in AgentIds : jobs[id] # NoJob /\ Contains(state.active, id)

\* --------------------------------- SpecUpload: BambuLabPrinter.upload_file
\* One upload_file call at a time, attempt by attempt under the tenacity
\* retry decorator.  call holds the arguments, hist the attempts made so far
\* by the call, ret what the call returned or raised.
\*
\* Texts are sequences of tokens: a digit is a token of its own, any other
\* token is a piece of text without digits.
StopAfterAttempt == 3

Has530(t) == \E i \in 1..(Len(t) - 2) : t[i] = "5" /\ t[i + 1] = "3" /\ t[i + 2] = "0"
Lower(w) ==
  CASE w = "Authentication" -> "authentication"
    [] w = ".GCODE" -> ".gcode"
    [] OTHER -> w
HasAuthentication(t) == \E i \in 1..Len(t) : Lower(t[i]) = "authentication"

\* PrinterControlError.__str__: the message, then the details as k=v
StrMismatch(local_size, remote_size, remote_name) ==
  <<"File size mismatch after upload", " (expected=">> \o local_size
    \o <<", actual=">> \o remote_size
    \o <<", filename=">> \o remote_name \o <<")">>

\* Arguments of a call: the local file and the remote name
LocalPaths ==
  {[exists |-> TRUE, suffix |-> ".gcode", size |-> <<"1", "2">>],
   [exists |-> TRUE, suffix |-> ".GCODE", size |-> <<"5", "3", "0", "4">>],
   [exists |-> TRUE, suffix |-> ".txt", size |-> <<"1", "2">>],
   [exists |-> FALSE, suffix |-> ".gcode", size |-> <<>>]}
RemoteNames ==
  {<<"job_", "2", "_", "1", "7", ".gcode">>,
   <<"job_", "2", "_", "1", "5", "3", "0", ".gcode">>}

\* What the FTP session of one attempt does: it raises with the server's
\* text, or it stores the file and reports the remote size
FtpOutcomes ==
  {[kind |-> "raised", text |-> <<"5", "3", "0", " Login incorrect">>],
   [kind |-> "raised", text |-> <<"Authentication", " failed">>],
   [kind |-> "raised", text |-> <<"timed out">>],
   [kind |-> "raised", text |-> <<"5", "5", "0", " Permission denied">>],
   [kind |-> "stored", size |-> "same"],
   [kind |-> "stored", size |-> "short"]}

\* except Exception as e: AuthenticationError when "530" or "authentication"
\* is in str(e), UploadError otherwise
upload_except(text) ==
  IF Has530(text) \/ HasAuthentication(text)
  THEN "AuthenticationError" ELSE "UploadError"

\* One execution of the body of upload_file
upload_attempt(local_path, remote_name, ftp) ==
  IF ~local_path.exists THEN "ValidationError"
  ELSE IF Lower(local_path.suffix) \notin {".gcode", ".gco", ".g"} THEN "ValidationError"
  ELSE IF ftp.kind = "raised" THEN upload_except(ftp.text)
  ELSE IF ftp.size # "same"
       THEN upload_except(StrMismatch(local_path.size, <<"0">>, remote_name))
  ELSE "True"

\* retry=retry_if_exception_type(UploadError), stop=stop_after_attempt(3)
retry_again(raised, attempts) == raised = "UploadError" /\ attempts < StopAfterAttempt

InitUpload ==
  /\ Init
  /\ connected = FALSE

UploadCall(local_path, remote_name) ==
  /\ pc["api"] = "idle"
  /\ call' = [op |-> "upload_file", id |-> NoId, dev |-> "none",
              local_path |-> local_path, remote_name |-> remote_name]
  /\ hist' = <<>>
  /\ Goto("api", "upload_attempt")
  /\ UNCHANGED <<qvars, files, ret, logging, used, job, mon, connected, running, cmds, returned, loops>>

UploadAttempt(ftp) ==
  /\ pc["api"] = "upload_attempt"
  /\ LET r == upload_attempt(call.local_path, call.remote_name, ftp)
         h == Append(hist, [ftp |-> ftp, result |-> r])
     IN  /\ hist' = h
         /\ IF retry_again(r, Len(h))
            THEN UNCHANGED <<pc, ret>>
            ELSE ret' = r /\ Goto("api", "done")
  /\ UNCHANGED <<qvars, files, logging, used, call, job, mon, connected, running, cmds, returned, loops>>

UploadReturn ==
  /\ pc["api"] = "done"
  /\ call' = NoCall
  /\ ret' = None
  /\ hist' = <<>>
  /\ Goto("api", "idle")
  /\ UNCHANGED <<qvars, files, logging, used, job, mon, connected, running, cmds, returned, loops>>

NextUpload ==
  \/ \E p \in LocalPaths, n \in RemoteNames : UploadCall(p, n)
  \/ \E ftp \in FtpOutcomes : UploadAttempt(ftp)
  \/ UploadReturn

SpecUpload == InitUpload /\ [][NextUpload]_vars

Mismatch(a) == a.ftp.kind = "stored" /\ a.ftp.size # "same"

\* C21: one upload_file call makes at most 3 transfer attempts; it attempts
\* again only after a transient failure (UploadError); a size mismatch is
\* such a transient failure and never a success; an authentication or
\* validation failure ends the call on the attempt where it occurs.
C21_UploadRetries ==
  call.op = "upload_file" =>
    /\ Len(hist) <= StopAfterAttempt
    /\ \A k \in 1..(Len(hist) - 1) : hist[k].result = "UploadError"
    /\ \A k \in 1..Len(hist) :
         (Mismatch(hist[k]) /\ hist[k].result # "ValidationError")
           => hist[k].result = "UploadError"
    /\ (pc["api"] = "done" /\ ret = "UploadError") => Len(hist) = StopAfterAttempt

\* C22: once the stored status of a job is COMPLETED, FAILED, CANCELLED or
\* ERROR, no step of the control loop and no API call changes it, under
\* every interleaving of cancel_job with the loop's workflow, monitoring and
\* failure handling.
C22_TerminalIsFinal ==
  [][\A id \in AgentIds :
       (jobs[id] # NoJob /\ is_terminal(jobs[id]) /\ jobs'[id] # NoJob)
         => jobs'[id].status = jobs[id].status]_vars

\* C23: after any sequence of enqueue, dequeue, mark_completed, mark_failed
\* and clear_terminal_jobs, every id in the pending, active, completed or
\* failed list has a job record.
C23_ListedHasRecord ==
  \A l \in {"pending", "active", "completed", "failed"} :
    \A id \in Range(state[l]) : jobs[id] # NoJob

\* Every status a PrinterStatus can carry to the dispatch step
AnyStatuses ==
  [state : DeviceStates, online : BOOLEAN, current_job_id : AgentIds \cup {NoId},
   progress : DeviceProgress]

\* C24: the dispatch step dequeues a job only when the status read in that
\* iteration was idle and online; for any other state, for a printer that is
\* not online and for an empty pending list it leaves the lists and every
\* job record unchanged, and a dispatch that took no job sends no upload or
\* start command.
C24_DispatchGuard ==
  /\ [](\A st \in AnyStatuses :
          LET r == process_next_job(QS, st)
          IN  /\ r.job # NoId => (st.state = "idle" /\ st.online)
              /\ (st.state # "idle" \/ ~st.online \/ state.pending = <<>>)
                   => r = [q |-> QS, job |-> NoId])
  /\ [][(pc["loop"] = "top" /\ pc'["loop"] = "monitor")
          => UNCHANGED <<jobs, state, cmds>>]_vars
  /\ [][(pc["loop"] = "top" /\ pc'["loop"] = "exec_uploading")
          => /\ state.pending # <<>> /\ job' = Head(state.pending)
             /\ Contains(state'.active, job')
             /\ UNCHANGED cmds]_vars

\* The loop has skipped the dispatch with a job pending: nothing was ever
\* uploaded, nothing is active
C24_Witness ==
  /\ pc["loop"] = "monitor" /\ job = NoId
  /\ state.pending # <<>> /\ state.active = <<>>
  /\ \A id \in JobIds : cmds[<<"upload", id>>] = 0 /\ cmds[<<"start", id>>] = 0

\* The status of job id in the queue a restart would load from the file
StoredStatus(id) ==
  LET r == PrintQueue(files)
  IN  IF r.raised = None /\ r.q.jobs[id] # NoJob THEN r.q.jobs[id].status ELSE None

UploadCalled == pc["loop"] = "exec_upload" /\ pc'["loop"] # "exec_upload"
StartCalled == pc["loop"] = "exec_start" /\ pc'["loop"] # "exec_start"

\* C25: for each dispatched job the start command is sent only after the
\* upload of that job returned success; the stored queue records the job as
\* UPLOADING when upload is called, as STARTING when start is called, and as
\* PRINTING only after a start was sent; a failure of upload or start never
\* leaves the job with status PRINTING.
C25_WorkflowOrder ==
  /\ [][UploadCalled => StoredStatus(job) = "UPLOADING"]_vars
  /\ [][StartCalled => (StoredStatus(job) = "STARTING" /\ cmds[<<"upload", job>>] > 0)]_vars
  /\ [](\A id \in AgentIds : StoredStatus(id) = "PRINTING" => cmds[<<"start", id>>] > 0)
  /\ [][((UploadCalled \/ StartCalled) /\ pc'["loop"] = "fail")
          => (jobs'[job] # NoJob => jobs'[job].status # "PRINTING")]_vars
  /\ [][(FailureHandled /\ jobs'[job] # NoJob) => jobs'[job].status # "PRINTING"]_vars

\* C26: when the monitor step reads, for a dispatched job that is PRINTING,
\* a status of its own print with the device in the error state, the step
\* leaves the job with the terminal status ERROR.
C26_DeviceErrorToError ==
  \A id \in AgentIds : \A st \in DeviceStatuses :
    ( /\ jobs[id] # NoJob /\ jobs[id].status = "PRINTING"
      /\ Contains(state.active, id)
      /\ st.state = "error" /\ matches(id, st) )
    => LET r == monitor_job(QS, id, st)
       IN  r.q.jobs[id].status = "ERROR"

\* A step that sends an upload or a start command for job id
UploadOrStart(id) ==
  cmds'[<<"upload", id>>] > cmds[<<"upload", id>>]
    \/ cmds'[<<"start", id>>] > cmds[<<"start", id>>]

\* cancel_job(id) has returned true: the job is stored as cancelled by the
\* user and no cancel_job call on it is still under way
CancelDone(id) ==
  /\ jobs[id] # NoJob
  /\ jobs[id].error_message = "Cancelled by user"
  /\ ~(pc["api"] \in {"cancel_status", "cancel_mark", "cancel_save"} /\ call.id = id)

\* C27: after cancel_job(id) has returned true the agent sends no upload and
\* no start command for that job, whatever the interleaving of cancel_job
\* with the control loop.
C27_NoCommandAfterCancel ==
  [][\A id \in AgentIds : CancelDone(id) => ~UploadOrStart(id)]_vars

\* C28: under every interleaving of submit_job, cancel_job and the control
\* loop no job id is in two of the four lists at once, in particular never
\* in both completed and failed.
C28_OneListPerId ==
  \A id \in AgentIds : Cardinality(ListsOf(id)) <= 1

\* ------------------------------- SpecRestart: the agent after a restart
\* The agent is constructed over the snapshot an earlier run saved while a
\* job was pending, uploading, starting or printing (save() after each status
\* of _execute_job), with or without a second job pending behind it.  The
\* control loop runs for ever; cancel_job calls come in between.
RestoredStatuses == {"PENDING", "UPLOADING", "STARTING", "PRINTING"}

RestoredQueues ==
  LET first(st) == enqueue(EmptyQueue, PrintJob(1, 0, st, DefaultMaxRetries)).q
  IN  {first(st) : st \in RestoredStatuses}
        \cup {enqueue(first(st), PrintJob(2, 0, "PENDING", DefaultMaxRetries)).q :
                st \in RestoredStatuses}

InitRestart ==
  /\ files \in {save(NoFiles, q) : q \in RestoredQueues}
  /\ jobs = PrintQueue(files).q.jobs
  /\ state = PrintQueue(files).q.state
  /\ used = {id \in JobIds : PrintQueue(files).q.jobs[id] # NoJob}
  /\ ret = None
  /\ hist = <<>>
  /\ logging = FALSE
  /\ pc = [t \in Threads |-> "idle"]
  /\ call = NoCall
  /\ job = NoId
  /\ mon = <<>>
  /\ connected = FALSE
  /\ running = FALSE
  /\ cmds = [c \in Commands \X JobIds |-> 0]
  /\ returned = {}
  /\ loops = 0

\* The steps of _process_queue()
LoopNext ==
  \/ DispatchSkip
  \/ DispatchDequeue
  \/ ExecUploading
  \/ ExecUploadingSave
  \/ ExecUpload
  \/ ExecStarting
  \/ ExecStartingSave
  \/ ExecStart
  \/ ExecPrinting
  \/ ExecPrintingSave
  \/ HandleJobFailure
  \/ FailRequeue
  \/ FailMark
  \/ FailSave
  \/ Monitor
  \/ MonitorSkip
  \/ \E st \in DeviceStatuses : MonitorUpdate(st)
  \/ Complete
  \/ CompleteMark
  \/ CompleteSave
  \/ Housekeeping

\* The steps of a cancel_job call under way, and its return
CancelNext ==
  \/ CancelSetStatus
  \/ CancelMark
  \/ CancelSave
  \/ ApiReturn

NextRestart ==
  \/ Start
  \/ \E id \in AgentIds : CancelCheck(id)
  \/ CancelNext
  \/ LoopNext

\* The monitor step reads that the printer has finished the job
MonitorFinished ==
  \E st \in DeviceStatuses :
    st.state = "idle" /\ st.progress >= CompletionThreshold /\ MonitorUpdate(st)

\* Every step of a thread changes where the thread is or what the monitor
\* step has left to visit
tvars == <<pc, mon, running>>

\* start() succeeds in the end, both threads keep running, and the printer
\* reports the end of a print when it is asked often enough
SpecRestart ==
  /\ InitRestart /\ [][NextRestart]_vars
  /\ SF_tvars(Start)
  /\ WF_tvars(LoopNext)
  /\ WF_tvars(CancelNext)
  /\ SF_tvars(MonitorFinished)

\* C29: with a fair control loop and device calls that return, every job in
\* the active list eventually has a terminal status and is out of the active
\* list, a job restored into the active list as UPLOADING or STARTING
\* included.
C29_ActiveTerminates ==
  \A id \in AgentIds :
    Contains(state.active, id)
      ~> (~Contains(state.active, id) /\ (jobs[id] = NoJob \/ is_terminal(jobs[id])))

\* C30: in every reachable state of one agent at most one job has status
\* UPLOADING, STARTING or PRINTING, whatever statuses the device reports.
C30_OneJobOnDevice ==
  Cardinality({id \in AgentIds :
                 jobs[id] # NoJob
                   /\ jobs[id].status \in {"UPLOADING", "STARTING", "PRINTING"}}) <= 1

====
